---- MODULE Spec2Model ----
(***************************************************************************)
(* Open-addressing associative array of hash-table.c / hash-functions.c.   *)
(* One action per public operation (aaCreateAssociativeArray, aaInsert,    *)
(* aaLookup, aaDelete, aaIterateAction, aaDeleteAssociativeArray); the     *)
(* hash and probe strategies are operators computed as the C code does.    *)
(***************************************************************************)
EXTENDS Integers, Sequences, FiniteSets, TLC

(* ---- bounds of the model ---- *)
MaxKeyLen == 2      \* longest key, in bytes
MaxByte == 1        \* byte values are 0..MaxByte
MaxValue == 2       \* value references are 1..MaxValue (0 is NULL)
MaxRequest == 3     \* largest capacity requested of the constructor
MaxOps == 3         \* number of calls made on one table

Bytes == 0..MaxByte
Keys == UNION {[1..n -> Bytes] : n \in 0..MaxKeyLen}
Values == 1..MaxValue

(* ---- validity tags of a slot; memset(0) makes every slot HASH_EMPTY ---- *)
HASH_EMPTY == "EMPTY"
HASH_USED == "USED"
HASH_DELETED == "DELETED"

(* ---- return sentinels ---- *)
NotFound == 0       \* NULL returned by aaLookup / aaDelete
Failure == 0 - 1    \* negative index returned by aaInsert
NoReturn == 0 - 2   \* marks a call that did not return

(* ---- history marks of a key ---- *)
Never == NotFound   \* no insert of the key has succeeded
Gone == 0 - 1       \* the key's last successful call was a delete

ProbeNames == {"linear", "quadratic", "double"}
HashNames == {"len", "sum", "wei"}

(* ---- prime capacity service: the smallest known prime >= the request,
   a value below 1 when there is none ---- *)
IsPrime(n) == n > 1 /\ \A d \in 2..(n - 1) : n % d # 0

PrimeLimit == 5000  \* "only primes less than 5000 are known"

getLargerPrime(n) ==
    IF n >= PrimeLimit THEN Failure
    ELSE CHOOSE p \in n..(PrimeLimit - 1) :
            IsPrime(p) /\ \A q \in n..(p - 1) : ~IsPrime(q)

(* ---- keys ---- *)
doKeysMatch(key1, key1len, key2, key2len) ==
    IF key1len # key2len THEN FALSE
    ELSE \A i \in 1..key1len : key1[i] = key2[i]

\* Position of the first zero byte of the caller's buffer.  The buffer is
\* taken to be a C string: a zero byte follows its keylen bytes.
NulPos(key) ==
    IF \E i \in 1..Len(key) : key[i] = 0
    THEN CHOOSE i \in 1..Len(key) : key[i] = 0 /\ \A j \in 1..(i - 1) : key[j] # 0
    ELSE Len(key) + 1

\* strdup((char *) key) copies the bytes up to and including the first zero
\* byte.  The slot records keylen, and memcmp later reads keylen bytes of
\* the copy: the bytes past the copied zero byte lie outside the allocation
\* and hold whatever the heap holds.  The result is the set of keylen-byte
\* views the copy can present.
strdup(key) ==
    {s \in [1..Len(key) -> Bytes] :
        \A i \in 1..Len(key) : (i <= NulPos(key)) => (s[i] = key[i])}

(* ---- hash strategies ---- *)
RECURSIVE SumBytes(_, _)
SumBytes(key, n) == IF n = 0 THEN 0 ELSE SumBytes(key, n - 1) + key[n]

RECURSIVE WeightSumBytes(_, _)
WeightSumBytes(key, n) ==
    IF n = 0 THEN 0 ELSE WeightSumBytes(key, n - 1) + key[n] * n

hashByLength(key, keyLength, sz) == keyLength % sz

hashBySum(key, keyLength, sz) == SumBytes(key, keyLength) % sz

\* The weights start at 0 instead of 1.
hashByWeightSum_ZeroBased(key, keyLength, sz) ==
    (WeightSumBytes(key, keyLength) - SumBytes(key, keyLength)) % sz

hashByWeightSum(key, keyLength, sz) == WeightSumBytes(key, keyLength) % sz

lookupNamedHashStrategy(name, key, keyLength, sz) ==
    IF name = "sum" THEN hashBySum(key, keyLength, sz)
    ELSE IF name = "len" THEN hashByLength(key, keyLength, sz)
    ELSE IF name = "wei" THEN hashByWeightSum(key, keyLength, sz)
    ELSE hashBySum(key, keyLength, sz)

(* ---- probe strategies ----
   Each returns [index, ic, steps, returns]: the index handed back (-1 on
   failure), the increments made to insertCost, the number of candidate
   slots examined, and whether the call returns at all. *)
ProbeResult(i, c, s, r) == [index |-> i, ic |-> c, steps |-> s, returns |-> r]

RECURSIVE linearLoop(_, _, _, _, _, _, _)
linearLoop(tbl, sz, key, keyLength, currentIndex, probeCost, stopOnInvalid) ==
    IF probeCost < sz
    THEN LET cur == (currentIndex + 1) % sz
             slot == tbl[cur]
         IN IF slot.validity # HASH_USED
                \/ doKeysMatch(key, keyLength, slot.key, slot.keylen)
            THEN ProbeResult(cur,
                             IF slot.validity # HASH_USED THEN 1 ELSE 0,
                             probeCost + 1, TRUE)
            ELSE IF stopOnInvalid /\ slot.validity = HASH_DELETED
                 THEN ProbeResult(Failure, 0, probeCost + 1, TRUE)
                 ELSE linearLoop(tbl, sz, key, keyLength, cur,
                                 probeCost + 1, stopOnInvalid)
    ELSE ProbeResult(Failure, 0, probeCost, TRUE)

\* The walk starts one slot too far.
linearProbe_SkipOne(tbl, sz, key, keyLength, index, stopOnInvalid) ==
    linearLoop(tbl, sz, key, keyLength, index + 1, 0, stopOnInvalid)

linearProbe(tbl, sz, key, keyLength, index, stopOnInvalid) ==
    linearLoop(tbl, sz, key, keyLength, index, 0, stopOnInvalid)

\* The for loop has no exit condition.  (index + attempt^2) % size repeats
\* with period size and the loop changes no slot, so a loop that has not
\* returned after attempt = size never returns.
RECURSIVE quadraticLoop(_, _, _, _, _, _, _)
quadraticLoop(tbl, sz, key, keyLength, index, attempt, stopOnInvalid) ==
    IF attempt > sz
    THEN ProbeResult(Failure, attempt - 1, attempt, FALSE)
    ELSE LET newIndex == (index + attempt * attempt) % sz
             slot == tbl[newIndex]
         IN IF slot.validity # HASH_USED
                \/ doKeysMatch(slot.key, slot.keylen, key, keyLength)
            THEN ProbeResult(newIndex, attempt, attempt, TRUE)
            ELSE IF stopOnInvalid /\ slot.validity = HASH_DELETED
                 THEN ProbeResult(Failure, attempt, attempt, TRUE)
                 ELSE quadraticLoop(tbl, sz, key, keyLength, index,
                                    attempt + 1, stopOnInvalid)

quadraticProbe(tbl, sz, key, keyLength, index, stopOnInvalid) ==
    quadraticLoop(tbl, sz, key, keyLength, index, 1, stopOnInvalid)

\* Same unbounded for loop, attempt = 0, 1, 2, ...; (index + attempt * step)
\* % size repeats with period size.
RECURSIVE doubleHashLoop(_, _, _, _, _, _, _, _)
doubleHashLoop(tbl, sz, key, keyLength, index, stepSize, attempt, stopOnInvalid) ==
    IF attempt >= sz
    THEN ProbeResult(Failure, attempt, attempt + 1, FALSE)
    ELSE LET newIndex == (index + attempt * stepSize) % sz
             slot == tbl[newIndex]
         IN IF slot.validity # HASH_USED
                \/ doKeysMatch(slot.key, slot.keylen, key, keyLength)
            THEN ProbeResult(newIndex,
                             attempt + (IF slot.validity # HASH_USED THEN 1 ELSE 0),
                             attempt + 1, TRUE)
            ELSE IF stopOnInvalid /\ slot.validity = HASH_DELETED
                 THEN ProbeResult(Failure, attempt + 1, attempt + 1, TRUE)
                 ELSE doubleHashLoop(tbl, sz, key, keyLength, index, stepSize,
                                     attempt + 1, stopOnInvalid)

\* The secondary hash is ignored: the step is always 0.
doubleHashProbe_StepZero(tbl, sz, secondary, key, keyLength, index, stopOnInvalid) ==
    doubleHashLoop(tbl, sz, key, keyLength, index, 0, 0, stopOnInvalid)

doubleHashProbe(tbl, sz, secondary, key, keyLength, index, stopOnInvalid) ==
    doubleHashLoop(tbl, sz, key, keyLength, index,
                   lookupNamedHashStrategy(secondary, key, keyLength, sz),
                   0, stopOnInvalid)

lookupNamedProbingStrategy(name, tbl, sz, secondary, key, keyLength, index, stopOnInvalid) ==
    IF name = "linear" THEN linearProbe(tbl, sz, key, keyLength, index, stopOnInvalid)
    ELSE IF name = "quadratic"
         THEN quadraticProbe(tbl, sz, key, keyLength, index, stopOnInvalid)
    ELSE IF name = "double"
         THEN doubleHashProbe(tbl, sz, secondary, key, keyLength, index, stopOnInvalid)
    ELSE linearProbe(tbl, sz, key, keyLength, index, stopOnInvalid)

(* ---- state ---- *)
VARIABLES
    size,                   \* aarray->size
    hashProbe,              \* aarray->hashProbe, by name
    hashAlgorithmPrimary,   \* aarray->hashAlgorithmPrimary, by name
    hashAlgorithmSecondary, \* aarray->hashAlgorithmSecondary, by name
    table,                  \* aarray->table
    nEntries,               \* aarray->nEntries
    insertCost, searchCost, deleteCost,
    pc,                     \* "ready", or why the last call never returned;
                            \* "new", "null", "destroyed" around the table's
                            \* life; "hash" when only a hash is applied
    lastOp, lastKey, lastRet,  \* the last call, its key and its result
    steps,                  \* candidate slots the last call's probe examined
    oob,                    \* the last call indexed the table outside 0..size-1
    live,                   \* history: key -> value of its last successful
                            \* insert, Gone once a delete of it succeeded
    nSucc,                  \* history: number of successful inserts
    nDel,                   \* history: number of aaDelete calls
    opsLeft,                \* calls the driver has still to make
    visited,                \* the calls the last aaIterateAction made to the
                            \* user function, in order
    heap                    \* the blocks malloc and strdup handed out that
                            \* free has not taken back

config == <<size, hashProbe, hashAlgorithmPrimary, hashAlgorithmSecondary>>
costs == <<insertCost, searchCost, deleteCost>>
vars == <<size, hashProbe, hashAlgorithmPrimary, hashAlgorithmSecondary,
          table, nEntries, insertCost, searchCost, deleteCost, pc,
          lastOp, lastKey, lastRet, steps, oob, live, nSucc, nDel, opsLeft,
          visited, heap>>

EmptySlot == [validity |-> HASH_EMPTY, key |-> <<>>, keylen |-> 0, value |-> 0]

\* State after a successful aaCreateAssociativeArray.  Only doubleHashProbe
\* calls the secondary hash, so under the other two probes one secondary
\* ("sum", the default) stands for all three.
Created ==
    /\ \E request \in 1..MaxRequest : size = getLargerPrime(request)
    /\ hashProbe \in ProbeNames
    /\ hashAlgorithmPrimary \in HashNames
    /\ hashAlgorithmSecondary \in HashNames
    /\ (hashProbe # "double") => (hashAlgorithmSecondary = "sum")
    /\ table = [i \in 0..(size - 1) |-> EmptySlot]
    /\ nEntries = 0
    /\ insertCost = 0 /\ searchCost = 0 /\ deleteCost = 0
    /\ pc = "ready"
    /\ lastOp = "none" /\ lastKey = <<>> /\ lastRet = 0
    /\ steps = 0
    /\ oob = FALSE
    /\ live = [k \in Keys |-> Never]
    /\ nSucc = 0
    /\ nDel = 0
    /\ visited = <<>>
    /\ heap = [aarray |-> TRUE, table |-> TRUE, keys |-> {}]

Init == Created /\ opsLeft = MaxOps

Probe(key, keylen, originalIndex) ==
    lookupNamedProbingStrategy(hashProbe, table, size, hashAlgorithmSecondary,
                               key, keylen, originalIndex, FALSE)

\* Bookkeeping of a call: what was called, and what came back.
Called(op, key) ==
    /\ lastOp' = op /\ lastKey' = key
    /\ opsLeft' = opsLeft - 1
    /\ visited' = <<>>
    /\ UNCHANGED config

Returns(ret, st) == pc' = "ready" /\ lastRet' = ret /\ steps' = st /\ oob' = FALSE

\* The probe's for loop never exits; its attempt counter eventually
\* overflows int, which is undefined.
Diverges(st) == pc' \in {"hang", "ub"} /\ lastRet' = NoReturn /\ steps' = st /\ oob' = FALSE

\* table[-1] is read after linearProbe returned -1: the outcome is whatever
\* lies before the slot array.  Either the word read is not HASH_USED and the
\* call returns its sentinel, or the run is lost.
OutOfBounds(sentinel, st) ==
    /\ oob' = TRUE /\ steps' = st
    /\ \/ pc' = "ready" /\ lastRet' = sentinel
       \/ pc' = "ub" /\ lastRet' = NoReturn

\* Off by one: a full table still passes.
TableFull_OffByOne(n, sz) == n > sz

\* Line 155 of aaInsert: no room left.
TableFull(n, sz) == n >= sz

\* Delete hands the slot back as EMPTY instead of leaving a tombstone.
MarkDeleted_AsEmpty(tbl, index) == [tbl EXCEPT ![index].validity = HASH_EMPTY]

\* Line 285 of aaDelete: the slot becomes a tombstone; its key, keylen and
\* value stay as they were (the key copy is not freed).
MarkDeleted(tbl, index) == [tbl EXCEPT ![index].validity = HASH_DELETED]

\* The stored entry is not counted.
CountEntry_Skipped(n) == n

\* Line 201 of aaInsert: nEntries++.
CountEntry(n) == n + 1

\* Lines 194-204 of aaInsert: fill the slot and count the entry.  strdup
\* allocates the key copy: the block is named by the insert's ordinal.
StoreAt(index, key, keylen, value) ==
    /\ \E copy \in strdup(key) :
          table' = [table EXCEPT ![index] =
                       [validity |-> HASH_USED, key |-> copy,
                        keylen |-> keylen, value |-> value]]
    /\ nEntries' = CountEntry(nEntries)
    /\ nSucc' = nSucc + 1
    /\ live' = [live EXCEPT ![key] = value]
    /\ heap' = [heap EXCEPT !.keys = @ \cup {nSucc + 1}]

aaInsert(key, value) ==
    /\ pc = "ready" /\ opsLeft > 0
    /\ Called("Insert", key)
    /\ UNCHANGED <<searchCost, deleteCost, nDel>>
    /\ LET keylen == Len(key)
           originalIndex == lookupNamedHashStrategy(hashAlgorithmPrimary, key, keylen, size)
           first == table[originalIndex]
           r == Probe(key, keylen, originalIndex)
       IN IF TableFull(nEntries, size)
          THEN /\ Returns(Failure, 0)
               /\ UNCHANGED <<table, nEntries, insertCost, live, nSucc, heap>>
          ELSE IF first.validity # HASH_USED
          THEN /\ Returns(originalIndex, 0)
               /\ StoreAt(originalIndex, key, keylen, value)
               /\ UNCHANGED insertCost
          ELSE IF doKeysMatch(first.key, first.keylen, key, keylen)
          THEN /\ Returns(Failure, 0)
               /\ UNCHANGED <<table, nEntries, insertCost, live, nSucc, heap>>
          ELSE IF ~r.returns
          THEN /\ Diverges(r.steps)
               /\ UNCHANGED <<table, nEntries, insertCost, live, nSucc, heap>>
          ELSE /\ insertCost' = insertCost + r.ic
               /\ IF r.index = originalIndex
                  THEN /\ Returns(Failure, r.steps)
                       /\ UNCHANGED <<table, nEntries, live, nSucc, heap>>
                  ELSE IF r.index \notin 0..(size - 1)
                  THEN /\ OutOfBounds(Failure, r.steps)
                       /\ UNCHANGED <<table, nEntries, live, nSucc, heap>>
                  ELSE IF table[r.index].validity # HASH_USED
                  THEN /\ Returns(r.index, r.steps)
                       /\ StoreAt(r.index, key, keylen, value)
                  ELSE IF doKeysMatch(table[r.index].key, table[r.index].keylen,
                                      key, keylen)
                  THEN /\ Returns(Failure, r.steps)
                       /\ UNCHANGED <<table, nEntries, live, nSucc, heap>>
                  ELSE \* the probe restarts from originalIndex and hands
                       \* back the same slot: the while loop spins
                       /\ pc' = "hang" /\ lastRet' = NoReturn
                       /\ steps' = r.steps + size /\ oob' = FALSE
                       /\ UNCHANGED <<table, nEntries, live, nSucc, heap>>

aaLookup(key) ==
    /\ pc = "ready" /\ opsLeft > 0
    /\ Called("Lookup", key)
    /\ UNCHANGED <<table, nEntries, deleteCost, live, nSucc, nDel, heap>>
    /\ LET keylen == Len(key)
           originalIndex == lookupNamedHashStrategy(hashAlgorithmPrimary, key, keylen, size)
           first == table[originalIndex]
           r == Probe(key, keylen, originalIndex)
       IN IF first.validity # HASH_USED
          THEN /\ Returns(NotFound, 0)
               /\ UNCHANGED <<insertCost, searchCost>>
          ELSE IF doKeysMatch(first.key, first.keylen, key, keylen)
          THEN /\ Returns(first.value, 0)
               /\ searchCost' = searchCost + 1
               /\ UNCHANGED insertCost
          ELSE IF ~r.returns
          THEN /\ Diverges(r.steps)
               /\ searchCost' = searchCost + 1
               /\ UNCHANGED insertCost
          ELSE /\ insertCost' = insertCost + r.ic
               /\ IF r.index = originalIndex
                  THEN /\ Returns(NotFound, r.steps)
                       /\ searchCost' = searchCost + 1
                  ELSE IF r.index \notin 0..(size - 1)
                  THEN /\ OutOfBounds(NotFound, r.steps)
                       /\ searchCost' = searchCost + 1
                  ELSE IF table[r.index].validity # HASH_USED
                  THEN /\ Returns(NotFound, r.steps)
                       /\ searchCost' = searchCost + 1
                  ELSE IF doKeysMatch(table[r.index].key, table[r.index].keylen,
                                      key, keylen)
                  THEN /\ Returns(table[r.index].value, r.steps)
                       /\ searchCost' = searchCost + 2
                  ELSE /\ pc' = "hang" /\ lastRet' = NoReturn
                       /\ steps' = r.steps + size /\ oob' = FALSE
                       /\ searchCost' = searchCost + 2

aaDelete(key) ==
    /\ pc = "ready" /\ opsLeft > 0
    /\ Called("Delete", key)
    /\ nDel' = nDel + 1
    /\ UNCHANGED <<nEntries, searchCost, nSucc, heap>>
    /\ LET keylen == Len(key)
           originalIndex == lookupNamedHashStrategy(hashAlgorithmPrimary, key, keylen, size)
           first == table[originalIndex]
           r == Probe(key, keylen, originalIndex)
           Tombstone(index) ==
               /\ table' = MarkDeleted(table, index)
               /\ live' = [live EXCEPT ![key] = Gone]
       IN IF first.validity # HASH_USED
          THEN /\ Returns(NotFound, 0)
               /\ UNCHANGED <<table, insertCost, deleteCost, live>>
          ELSE IF doKeysMatch(first.key, first.keylen, key, keylen)
          THEN /\ Returns(first.value, 0)
               /\ Tombstone(originalIndex)
               /\ deleteCost' = deleteCost + 1
               /\ UNCHANGED insertCost
          ELSE IF ~r.returns
          THEN /\ Diverges(r.steps)
               /\ deleteCost' = deleteCost + 1
               /\ UNCHANGED <<table, insertCost, live>>
          ELSE /\ insertCost' = insertCost + r.ic
               /\ IF r.index = originalIndex
                  THEN /\ Returns(NotFound, r.steps)
                       /\ deleteCost' = deleteCost + 1
                       /\ UNCHANGED <<table, live>>
                  ELSE IF r.index \notin 0..(size - 1)
                  THEN /\ OutOfBounds(NotFound, r.steps)
                       /\ deleteCost' = deleteCost + 1
                       /\ UNCHANGED <<table, live>>
                  ELSE IF table[r.index].validity # HASH_USED
                  THEN /\ Returns(NotFound, r.steps)
                       /\ deleteCost' = deleteCost + 1
                       /\ UNCHANGED <<table, live>>
                  ELSE IF doKeysMatch(table[r.index].key, table[r.index].keylen,
                                      key, keylen)
                  THEN /\ Returns(table[r.index].value, r.steps)
                       /\ Tombstone(r.index)
                       /\ deleteCost' = deleteCost + 2
                  ELSE /\ pc' = "hang" /\ lastRet' = NoReturn
                       /\ steps' = r.steps + size /\ oob' = FALSE
                       /\ deleteCost' = deleteCost + 2
                       /\ UNCHANGED <<table, live>>

Next ==
    \/ \E key \in Keys, value \in Values : aaInsert(key, value)
    \/ \E key \in Keys : aaLookup(key)
    \/ \E key \in Keys : aaDelete(key)

Spec == Init /\ [][Next]_vars

\* The same table under linear probing, the driver making one call more.
InitLinear == Created /\ hashProbe = "linear" /\ opsLeft = MaxOps + 1

SpecLinear == InitLinear /\ [][Next]_vars

(* ---- the whole life of a table: construction, traversal, destruction ---- *)
\* Capacities asked of the constructor: the small ones, and one for which
\* no prime is known.
Requests == (1..MaxRequest) \cup {PrimeLimit}

\* Line 52 of aaCreateAssociativeArray: the capacity handed back by
\* getLargerPrime is usable unless it is below 1.
SizeUsable(sz) == ~(sz < 1)

\* The struct of a refused construction is kept.
ReleaseStruct_Kept(h) == h

\* Line 54 of aaCreateAssociativeArray: free(newTable).
ReleaseStruct(h) == [h EXCEPT !.aarray = FALSE]

\* Before aaCreateAssociativeArray: no struct, no slot array.
NoTable ==
    /\ size = 0
    /\ hashProbe = "linear" /\ hashAlgorithmPrimary = "sum"
    /\ hashAlgorithmSecondary = "sum"
    /\ table = <<>>
    /\ nEntries = 0
    /\ insertCost = 0 /\ searchCost = 0 /\ deleteCost = 0
    /\ pc = "new"
    /\ lastOp = "none" /\ lastKey = <<>> /\ lastRet = 0
    /\ steps = 0
    /\ oob = FALSE
    /\ live = [k \in Keys |-> Never]
    /\ nSucc = 0
    /\ nDel = 0
    /\ visited = <<>>
    /\ heap = [aarray |-> FALSE, table |-> FALSE, keys |-> {}]

\* The struct is allocated first (line 41); size keeps what getLargerPrime
\* returned (line 50).  When that is below 1 the struct is freed and NULL
\* returned before the slot array is allocated; otherwise the slot array is
\* allocated and zeroed.
aaCreateAssociativeArray(request, probingStrategy, hashPrimary, hashSecondary) ==
    /\ pc = "new" /\ opsLeft > 0
    /\ (probingStrategy # "double") => (hashSecondary = "sum")
    /\ lastOp' = "Create" /\ lastKey' = <<>> /\ lastRet' = 0
    /\ opsLeft' = opsLeft - 1
    /\ steps' = 0 /\ oob' = FALSE /\ visited' = <<>>
    /\ size' = getLargerPrime(request)
    /\ hashProbe' = probingStrategy
    /\ hashAlgorithmPrimary' = hashPrimary
    /\ hashAlgorithmSecondary' = hashSecondary
    /\ nEntries' = 0
    /\ insertCost' = 0 /\ searchCost' = 0 /\ deleteCost' = 0
    /\ UNCHANGED <<live, nSucc, nDel>>
    /\ IF SizeUsable(size')
       THEN /\ table' = [i \in 0..(size' - 1) |-> EmptySlot]
            /\ heap' = [heap EXCEPT !.aarray = TRUE, !.table = TRUE]
            /\ pc' = "ready"
       ELSE /\ table' = <<>>
            /\ heap' = ReleaseStruct([heap EXCEPT !.aarray = TRUE])
            /\ pc' = "null"

\* The user function of a traversal: it answers a negative number on its
\* failAt-th call and 0 on every other call (failAt = 0: never negative).
userfunction(failAt, call) == IF call = failAt THEN Failure ELSE 0

\* Tombstones are visited too.
IsValidEntry_NotEmpty(slot) == slot.validity # HASH_EMPTY

\* Line 101 of aaIterateAction: the slots handed to the user function.
IsValidEntry(slot) == slot.validity = HASH_USED

\* The for loop of aaIterateAction from slot i on: calls holds the calls
\* made so far, each with the slot's index, what was passed and what came
\* back.
RECURSIVE iterateLoop(_, _, _, _, _)
iterateLoop(tbl, sz, i, calls, failAt) ==
    IF i < sz
    THEN IF IsValidEntry(tbl[i])
         THEN LET result == userfunction(failAt, Len(calls) + 1)
                  made == Append(calls,
                                 [index |-> i, key |-> tbl[i].key,
                                  keylen |-> tbl[i].keylen,
                                  value |-> tbl[i].value, result |-> result])
              IN IF result < 0
                 THEN [calls |-> made, ret |-> Failure]
                 ELSE iterateLoop(tbl, sz, i + 1, made, failAt)
         ELSE iterateLoop(tbl, sz, i + 1, calls, failAt)
    ELSE [calls |-> calls, ret |-> 1]

aaIterateAction(failAt) ==
    /\ pc = "ready"
    /\ LET r == iterateLoop(table, size, 0, <<>>, failAt)
       IN visited' = r.calls /\ lastRet' = r.ret
    /\ lastOp' = "Traverse" /\ lastKey' = <<>>
    /\ steps' = 0 /\ oob' = FALSE
    /\ UNCHANGED <<config, table, nEntries, costs, pc, live, nSucc, nDel,
                   opsLeft, heap>>

\* Lines 81-82 of aaDeleteAssociativeArray: the slot array and the struct
\* are freed; no slot's key is.
ReleaseSlots(h) == [h EXCEPT !.table = FALSE, !.aarray = FALSE]

aaDeleteAssociativeArray ==
    /\ pc \in {"ready", "null"}
    /\ lastOp' = "Destroy" /\ lastKey' = <<>> /\ lastRet' = 0
    /\ steps' = 0 /\ oob' = FALSE /\ visited' = <<>>
    /\ UNCHANGED <<config, table, nEntries, costs, live, nSucc, nDel, opsLeft>>
    /\ IF pc = "null"
       THEN UNCHANGED <<pc, heap>>
       ELSE pc' = "destroyed" /\ heap' = ReleaseSlots(heap)

InitLife == NoTable /\ opsLeft = MaxOps + 1

NextLife ==
    \/ \E request \in Requests, probingStrategy \in ProbeNames,
          hashPrimary \in HashNames, hashSecondary \in HashNames :
          aaCreateAssociativeArray(request, probingStrategy, hashPrimary,
                                   hashSecondary)
    \/ \E key \in Keys, value \in Values : aaInsert(key, value)
    \/ \E key \in Keys : aaLookup(key)
    \/ \E key \in Keys : aaDelete(key)
    \/ \E failAt \in 0..MaxOps : aaIterateAction(failAt)
    \/ aaDeleteAssociativeArray

SpecLife == InitLife /\ [][NextLife]_vars

\* A table under linear probing that is also traversed, the driver making
\* one call more of Insert, Lookup and Delete.  The visitor never refuses,
\* or refuses its first call.
NextTraverse ==
    \/ \E key \in Keys, value \in Values : aaInsert(key, value)
    \/ \E key \in Keys : aaLookup(key)
    \/ \E key \in Keys : aaDelete(key)
    \/ \E failAt \in {0, 1} : aaIterateAction(failAt)

SpecLinearTraverse == InitLinear /\ [][NextTraverse]_vars

(* ---- the hash strategies on their own ---- *)
MaxCapacity == 7    \* largest capacity handed to a hash strategy

\* Byte values of the hashed keys: the two ends of the small range and the
\* letters 'a' and 'b'.
HashBytes == {0, 1, 97, 98}
HashKeys == UNION {[1..n -> HashBytes] : n \in 0..MaxKeyLen}

\* A key and a capacity are chosen; no table is involved.
InitHash ==
    /\ size \in 1..MaxCapacity
    /\ lastKey \in HashKeys
    /\ hashProbe = "linear" /\ hashAlgorithmPrimary = "sum"
    /\ hashAlgorithmSecondary = "sum"
    /\ table = <<>>
    /\ nEntries = 0
    /\ insertCost = 0 /\ searchCost = 0 /\ deleteCost = 0
    /\ pc = "hash"
    /\ lastOp = "none" /\ lastRet = 0
    /\ steps = 0
    /\ oob = FALSE
    /\ live = [k \in Keys |-> Never]
    /\ nSucc = 0
    /\ nDel = 0
    /\ opsLeft = MaxOps
    /\ visited = <<>>
    /\ heap = [aarray |-> FALSE, table |-> FALSE, keys |-> {}]

\* One call of the named strategy on the chosen key and capacity.
HashCall(name) ==
    /\ pc = "hash" /\ opsLeft > 0
    /\ lastOp' = "Hash" /\ hashAlgorithmPrimary' = name
    /\ lastRet' = lookupNamedHashStrategy(name, lastKey, Len(lastKey), size)
    /\ opsLeft' = opsLeft - 1
    /\ UNCHANGED <<size, hashProbe, hashAlgorithmSecondary, table, nEntries,
                   costs, pc, lastKey, steps, oob, live, nSucc, nDel,
                   visited, heap>>

NextHash == \E name \in HashNames : HashCall(name)

SpecHash == InitHash /\ [][NextHash]_vars

TypeOK ==
    /\ size \in {Failure} \cup (0..(PrimeLimit - 1))
    /\ nEntries \in 0..(IF size < 1 THEN 0 ELSE size)
    /\ pc \in {"new", "null", "ready", "hang", "ub", "destroyed", "hash"}
    /\ lastRet \in {NoReturn, Failure} \cup (0..(size + MaxValue))

(***************************************************************************)
(* Vocabulary of the properties                                            *)
(***************************************************************************)
Slots == 0..(size - 1)

\* The key has no byte after its first zero byte: strdup copies all of it.
CString(key) == NulPos(key) >= Len(key)

\* Slot i is USED and its stored bytes and length equal the key's.
Holds(i, key) ==
    /\ table[i].validity = HASH_USED
    /\ doKeysMatch(table[i].key, table[i].keylen, key, Len(key))

Present(key) == \E i \in Slots : Holds(i, key)

\* This step is a call of op (a stuttering step is none).
CallOf(op) == lastOp' = op /\ opsLeft' = opsLeft - 1

(***************************************************************************)
(* C1.  Every key that was successfully inserted and not deleted since is  *)
(* found by Lookup, which returns the value given at insert time; a        *)
(* tombstone on the key's probe path never makes Lookup report NotFound.   *)
(* Stated for the keys strdup copies whole, so that what fails is the      *)
(* tombstone handling alone.                                               *)
(***************************************************************************)
C1_LiveKeyIsFound ==
    (lastOp = "Lookup" /\ CString(lastKey) /\ live[lastKey] \in Values)
        => lastRet = live[lastKey]

(***************************************************************************)
(* C2.  In every reachable state at most one USED slot holds any given     *)
(* key (exact bytes and length).  Stated for the keys strdup copies whole. *)
(***************************************************************************)
C2_OneUsedSlotPerKey ==
    \A i, j \in Slots :
        (/\ table[i].validity = HASH_USED
         /\ CString(table[i].key)
         /\ Holds(j, table[i].key))
            => i = j

(***************************************************************************)
(* C3.  Insert of a key held by a USED slot fails with the negative        *)
(* sentinel, tombstones or not, and leaves every slot and the entry count  *)
(* unchanged.  Stated for the keys strdup copies whole.                    *)
(***************************************************************************)
C3_InsertOfPresentKeyFails ==
    [][(CallOf("Insert") /\ CString(lastKey') /\ Present(lastKey'))
          => (lastRet' = Failure /\ table' = table /\ nEntries' = nEntries)]_vars

(***************************************************************************)
(* C4.  After successful Inserts of mutually distinct keys and no Delete,  *)
(* Lookup of each inserted key returns exactly the value supplied when     *)
(* that key was inserted, under each probe strategy.                       *)
(***************************************************************************)
LiveKeys == {k \in Keys : live[k] \in Values}

C4_InsertedKeyIsRetrievable ==
    (/\ lastOp = "Lookup"
     /\ nDel = 0
     /\ nSucc = Cardinality(LiveKeys)
     /\ live[lastKey] \in Values)
        => lastRet = live[lastKey]

(***************************************************************************)
(* C5.  Every Insert, Lookup and Delete call terminates after at most      *)
(* `capacity` probe steps, in every reachable state and under each of the  *)
(* three probe strategies.                                                 *)
(***************************************************************************)
C5_ProbeStepsBounded == pc # "hang" /\ steps <= size

(***************************************************************************)
(* C6.  A slot's validity changes only EMPTY to USED (by Insert) or USED   *)
(* to DELETED (by Delete): a DELETED slot never becomes USED or EMPTY      *)
(* again.                                                                  *)
(***************************************************************************)
Becomes(i, from, to, op) ==
    table[i].validity = from /\ table'[i].validity = to /\ lastOp' = op

C7_DeleteThenNotFound ==
    [][/\ (CallOf("Delete") /\ CString(lastKey') /\ Present(lastKey'))
            => \E i \in Slots : Holds(i, lastKey') /\ lastRet' = table[i].value
       /\ (CallOf("Lookup") /\ CString(lastKey') /\ live[lastKey'] = Gone)
            => lastRet' = NotFound]_vars

(***************************************************************************)
(* C8.  When the probe walk finds neither a matching key nor a non-USED    *)
(* slot, the operation returns its failure sentinel (negative index for    *)
(* Insert, NotFound for Lookup and Delete) and indexes no slot outside     *)
(* 0..capacity-1.                                                          *)
(***************************************************************************)
\* The slots a walk for the key can reach: its start index and the
\* candidates of the configured probe (each candidate formula has period
\* size in its attempt number).
ProbeSequence(key) ==
    LET start == lookupNamedHashStrategy(hashAlgorithmPrimary, key, Len(key), size)
        step == lookupNamedHashStrategy(hashAlgorithmSecondary, key, Len(key), size)
    IN {start} \cup
       (IF hashProbe = "quadratic"
        THEN {(start + a * a) % size : a \in 1..size}
        ELSE IF hashProbe = "double"
        THEN {(start + a * step) % size : a \in 0..(size - 1)}
        ELSE {(start + a) % size : a \in 1..size})

WalkFindsNothing(key) ==
    \A i \in ProbeSequence(key) :
        table[i].validity = HASH_USED /\ ~Holds(i, key)

C8_ExhaustedWalkFails ==
    [][\A op \in {"Insert", "Lookup", "Delete"} :
          (/\ CallOf(op)
           /\ WalkFindsNothing(lastKey')
           /\ (op = "Insert") => (nEntries < size))
              => /\ pc' = "ready"
                 /\ ~oob'
                 /\ lastRet' = (IF op = "Insert" THEN Failure ELSE NotFound)]_vars

(***************************************************************************)
(* C9.  After exactly `capacity` successful Inserts, one further Insert of *)
(* any key fails with the negative sentinel without probing, and leaves    *)
(* the entry count and every slot unchanged.                               *)
(***************************************************************************)
C9_FullTableRejectsInsert ==
    [][(CallOf("Insert") /\ nSucc = size)
          => /\ pc' = "ready" /\ lastRet' = Failure
             /\ steps' = 0 /\ insertCost' = insertCost
             /\ table' = table /\ nEntries' = nEntries]_vars

\* An Insert of a key the table does not hold has just been refused on a
\* table that took `capacity` inserts.
C9_InsertRefusedWhenFull ==
    /\ lastOp = "Insert" /\ lastRet = Failure /\ pc = "ready"
    /\ nSucc = size /\ nEntries = size
    /\ ~Present(lastKey)

(***************************************************************************)
(* C10.  Delete of a key that is not present returns NotFound and leaves   *)
(* the entry count and the validity, key and value of every slot           *)
(* unchanged, tombstones or not.                                           *)
(***************************************************************************)
C10_DeleteOfAbsentKey ==
    [][(CallOf("Delete") /\ ~Present(lastKey') /\ live[lastKey'] \notin Values)
          => (lastRet' = NotFound /\ table' = table /\ nEntries' = nEntries)]_vars

(***************************************************************************)
(* C11.  Keys are byte strings of the given length, never taken to be      *)
(* null-terminated: a successful Insert leaves in its slot a copy of all   *)
(* `length` bytes of the key, zero bytes included, and a Lookup of a key   *)
(* that contains a zero byte, made on a table no Delete has touched,       *)
(* returns the value the key was inserted with.                            *)
(***************************************************************************)
HasZeroByte(key) == NulPos(key) <= Len(key)

C11_StoresAllKeyBytes ==
    [][/\ (CallOf("Insert") /\ pc' = "ready" /\ lastRet' \in Slots)
            => /\ table'[lastRet'].keylen = Len(lastKey')
               /\ table'[lastRet'].key = lastKey'
       /\ (/\ CallOf("Lookup") /\ pc' = "ready"
           /\ HasZeroByte(lastKey')
           /\ nDel = 0 /\ nSucc = Cardinality(LiveKeys)
           /\ live[lastKey'] \in Values)
            => lastRet' = live[lastKey']]_vars

(***************************************************************************)
(* C12.  Traverse calls the visitor exactly once for every USED slot and   *)
(* for no EMPTY or DELETED slot, in increasing slot index, passing the     *)
(* slot's key, key length and value; it stops at the first negative        *)
(* visitor result and reports failure, and reports success otherwise.      *)
(***************************************************************************)
UsedSlots == {i \in Slots : table[i].validity = HASH_USED}

C12_TraverseVisitsUsedSlots ==
    (lastOp = "Traverse") =>
        /\ \A n \in 1..Len(visited) :
              /\ {visited[m].index : m \in 1..n}
                    = {i \in UsedSlots : i <= visited[n].index}
              /\ \A m \in 1..(n - 1) : visited[m].index < visited[n].index
              /\ visited[n].key = table[visited[n].index].key
              /\ visited[n].keylen = table[visited[n].index].keylen
              /\ visited[n].value = table[visited[n].index].value
              /\ (n < Len(visited)) => (visited[n].result >= 0)
        /\ IF visited # <<>> /\ visited[Len(visited)].result < 0
           THEN lastRet = Failure
           ELSE lastRet = 1 /\ Len(visited) = Cardinality(UsedSlots)

\* A traversal has passed over a tombstone and an EMPTY slot, called the
\* visitor for the one USED slot, and reported success.
C12_TraverseSkipsTombstone ==
    /\ lastOp = "Traverse" /\ lastRet = 1
    /\ Len(visited) = 1
    /\ \E i, j \in Slots :
          /\ i < visited[1].index
          /\ table[i].validity = HASH_DELETED
          /\ table[j].validity = HASH_EMPTY

(***************************************************************************)
(* C13.  The (key, value) pairs a completed Traverse yields are exactly    *)
(* the keys inserted and not since deleted, each with the value it was     *)
(* inserted with; being fixed by the operation sequence alone, they are    *)
(* the same under linear, quadratic and double-hash probing.  Stated for   *)
(* the keys strdup copies whole.                                           *)
(***************************************************************************)
VisitedPairs == {<<visited[n].key, visited[n].value>> : n \in 1..Len(visited)}

LivePairs == {<<k, live[k]>> : k \in LiveKeys}

C13_TraverseYieldsLiveEntries ==
    (/\ lastOp = "Traverse" /\ lastRet = 1
     /\ \A k \in Keys : (live[k] # Never) => CString(k))
        => /\ VisitedPairs = LivePairs
           /\ Len(visited) = Cardinality(LivePairs)

(***************************************************************************)
(* C14.  Every key copy Insert allocates is released exactly once, by the  *)
(* Delete that removes its entry or by Destroy: while the table is in use  *)
(* the key copies still allocated are those of the USED slots, and after   *)
(* Destroy no key copy remains and the slot array is released.             *)
(***************************************************************************)
C14_KeyCopiesReleased ==
    /\ (pc = "ready") => (Cardinality(heap.keys) = Cardinality(UsedSlots))
    /\ (pc = "destroyed") => (heap.keys = {} /\ ~heap.table)

(***************************************************************************)
(* C15.  For every key and every capacity >= 1 the three hash strategies   *)
(* return length mod capacity, the sum of the byte values mod capacity,    *)
(* and the sum of each byte times its 1-based position mod capacity        *)
(* (bytes [97, 98] with capacity 7 give 6); the result lies in             *)
(* 0..capacity-1 and is the same on every call with the same key, length   *)
(* and capacity.                                                           *)
(***************************************************************************)
RECURSIVE SumOver(_, _)
SumOver(f, S) ==
    IF S = {} THEN 0
    ELSE LET i == CHOOSE x \in S : TRUE IN f[i] + SumOver(f, S \ {i})

ExpectedHash(name, key, capacity) ==
    LET positions == 1..Len(key)
    IN IF name = "len" THEN Len(key) % capacity
       ELSE IF name = "sum" THEN SumOver(key, positions) % capacity
       ELSE SumOver([i \in positions |-> key[i] * i], positions) % capacity

C15_HashValues ==
    [][\A name \in HashNames :
          (lastOp' = "Hash" /\ hashAlgorithmPrimary' = name)
              => /\ lastRet' = ExpectedHash(name, lastKey, size)
                 /\ lastRet' \in 0..(size - 1)
                 /\ (lastOp = "Hash" /\ hashAlgorithmPrimary = name)
                       => (lastRet' = lastRet)
                 /\ (name = "wei" /\ lastKey = <<97, 98>> /\ size = 7)
                       => (lastRet' = 6)]_vars

\* The weighted-sum strategy has been applied to the bytes [97, 98] with
\* capacity 7, after an earlier call of it on the same input.
C15_WeightedSumFixture ==
    /\ pc = "hash" /\ lastOp = "Hash" /\ hashAlgorithmPrimary = "wei"
    /\ lastKey = <<97, 98>> /\ size = 7 /\ lastRet = 6
    /\ opsLeft < MaxOps - 1

(***************************************************************************)
(* C16.  A Construct whose requested capacity the prime service cannot     *)
(* serve returns no table: no slot array is allocated, nothing stays       *)
(* allocated, and no Insert, Lookup, Delete or Traverse is ever applied    *)
(* to a table from that call.                                              *)
(***************************************************************************)
C16_FailedConstructGivesNoTable ==
    [][/\ (CallOf("Create") /\ size' < 1)
            => /\ pc' = "null"
               /\ table' = <<>>
               /\ ~heap'.table /\ ~heap'.aarray
       /\ (pc = "null")
            => /\ pc' = "null"
               /\ lastOp' \notin {"Insert", "Lookup", "Delete", "Traverse"}
               /\ table' = table /\ heap' = heap]_vars

\* A Construct asking for a capacity beyond the known primes has returned
\* NULL, and the Destroy of that NULL has returned too.
C16_ConstructRefused ==
    /\ pc = "null" /\ size < 1
    /\ lastOp = "Destroy"
    /\ table = <<>> /\ ~heap.table

(***************************************************************************)
(* C17.  A successful Insert stores the key in the first non-USED slot of  *)
(* the key's probe sequence and returns that slot's index; the sequence    *)
(* is the start index followed by start+1, start+2, ... (linear),          *)
(* start+1, start+4, start+9, ... (quadratic) or start+step,               *)
(* start+2*step, ... (double hashing), all mod capacity.  Every slot       *)
(* earlier in the sequence is USED by a different key, and no slot other   *)
(* than the returned one is modified.                                      *)
(***************************************************************************)
\* The a-th slot of the key's probe sequence, the start index being the 0th.
Candidate(key, a) ==
    LET start == lookupNamedHashStrategy(hashAlgorithmPrimary, key, Len(key), size)
        step == lookupNamedHashStrategy(hashAlgorithmSecondary, key, Len(key), size)
    IN IF hashProbe = "quadratic" THEN (start + a * a) % size
       ELSE IF hashProbe = "double" THEN (start + a * step) % size
       ELSE (start + a) % size

UsedByOther(i, key) == table[i].validity = HASH_USED /\ ~Holds(i, key)

C17_InsertTakesFirstFreeSlot ==
    [][(CallOf("Insert") /\ pc' = "ready" /\ lastRet' # Failure)
          => /\ \E a \in 0..size :
                   /\ lastRet' = Candidate(lastKey', a)
                   /\ table[lastRet'].validity # HASH_USED
                   /\ \A b \in 0..(a - 1) : UsedByOther(Candidate(lastKey', b), lastKey')
             /\ table'[lastRet'].validity = HASH_USED
             /\ table'[lastRet'].keylen = Len(lastKey')
             /\ table'[lastRet'].value = live'[lastKey']
             /\ CString(lastKey') => (table'[lastRet'].key = lastKey')
             /\ \A i \in Slots \ {lastRet'} : table'[i] = table[i]]_vars

\* Under double hashing a third key has been stored two steps past its
\* start index, the start slot and the slot one step on being taken.
C17_StoredTwoStepsOn ==
    /\ hashProbe = "double" /\ lastOp = "Insert" /\ pc = "ready"
    /\ lastRet \in Slots /\ nSucc = 3
    /\ lastRet = Candidate(lastKey, 2)
    /\ lastRet # Candidate(lastKey, 1) /\ lastRet # Candidate(lastKey, 0)

(***************************************************************************)
(* C18.  Under double hashing (the capacity being prime), an Insert of a   *)
(* key that is not present, made while the entry count is below the        *)
(* capacity and with a non-zero secondary hash of the key, reaches a       *)
(* non-USED slot within `capacity` attempts and succeeds; when the         *)
(* secondary hash is 0 the probe sequence holds the start index alone.     *)
(***************************************************************************)
StepOf(key) == lookupNamedHashStrategy(hashAlgorithmSecondary, key, Len(key), size)

C18_DoubleHashInsertSucceeds ==
    [][(CallOf("Insert") /\ hashProbe = "double" /\ IsPrime(size))
          => /\ (/\ StepOf(lastKey') # 0
                 /\ nEntries < size
                 /\ ~Present(lastKey'))
                  => /\ pc' = "ready" /\ ~oob'
                     /\ lastRet' \in Slots
                     /\ steps' <= size
                     /\ table[lastRet'].validity # HASH_USED
                     /\ table'[lastRet'].validity = HASH_USED
                     /\ nEntries' = nEntries + 1
             /\ (StepOf(lastKey') = 0)
                  => ProbeSequence(lastKey') = {Candidate(lastKey', 0)}]_vars

\* Under double hashing an Insert has filled the last free slot of the
\* table on the last of its `capacity` attempts.
C18_LastSlotReached ==
    /\ hashProbe = "double" /\ lastOp = "Insert" /\ pc = "ready"
    /\ lastRet \in Slots
    /\ StepOf(lastKey) # 0
    /\ steps = size
    /\ UsedSlots = Slots

(***************************************************************************)
(* C19.  Each Insert increases the insert-cost counter by exactly the      *)
(* number of probe steps it takes past the start slot: 0 when the start    *)
(* slot is non-USED or the table is full, and otherwise the position in    *)
(* the probe sequence of the slot it stores into, counted the same way     *)
(* under linear, quadratic and double-hash probing.                        *)
(***************************************************************************)
\* Position in the key's probe sequence at which slot i first appears.
StepsTo(key, i) ==
    CHOOSE a \in 0..size :
        Candidate(key, a) = i /\ \A b \in 0..(a - 1) : Candidate(key, b) # i

C19_InsertCostCountsSteps ==
    [][(CallOf("Insert") /\ pc' = "ready")
          => /\ (lastRet' # Failure)
                  => (insertCost' = insertCost + StepsTo(lastKey', lastRet'))
             /\ (nEntries >= size) => (insertCost' = insertCost)]_vars

(***************************************************************************)
(* C20.  Lookup changes no table state other than the search-cost          *)
(* counter: every slot, the entry count, the insert-cost counter and the   *)
(* delete-cost counter are after a Lookup what they were before it; and    *)
(* Delete never changes the insert-cost or the search-cost counter.        *)
(***************************************************************************)
C20_LookupAndDeleteFrame ==
    [][/\ (CallOf("Lookup") /\ pc' = "ready")
            => /\ table' = table /\ nEntries' = nEntries
               /\ insertCost' = insertCost /\ deleteCost' = deleteCost
       /\ (CallOf("Delete") /\ pc' = "ready")
            => /\ insertCost' = insertCost /\ searchCost' = searchCost]_vars

(***************************************************************************)
(* C21.  In every reachable state the number of USED slots is at most the  *)
(* entry count, which is at most the capacity, and the capacity never      *)
(* changes.  The entry count equals the number of successful Inserts and   *)
(* no Delete decreases it, so once `capacity` Inserts have succeeded       *)
(* every later Insert fails, entries deleted since or not.                 *)
(***************************************************************************)
C21_EntryCountNeverDecreases ==
    [][/\ Cardinality({i \in Slots : table'[i].validity = HASH_USED}) <= nEntries'
       /\ nEntries' <= size'
       /\ size' = size
       /\ nEntries' = nSucc'
       /\ nEntries' >= nEntries
       /\ CallOf("Delete") => (nEntries' = nEntries)
       /\ (CallOf("Insert") /\ nSucc = size)
            => /\ pc' = "ready" /\ lastRet' = Failure
               /\ table' = table /\ nEntries' = nEntries]_vars

\* `capacity` Inserts have succeeded, a Delete has since turned one entry
\* into a tombstone, and an Insert of a key the table does not hold has
\* just been refused.
C21_InsertRefusedAfterDelete ==
    /\ lastOp = "Insert" /\ lastRet = Failure /\ pc = "ready"
    /\ nSucc = size /\ nEntries = size
    /\ \E i \in Slots : table[i].validity = HASH_DELETED
    /\ Cardinality(UsedSlots) < nEntries
    /\ ~Present(lastKey)

====
